---------------------------- MODULE Spec2Model ----------------------------
(***************************************************************************)
(* Model of amethyst_rendy's visibility pass                               *)
(* (src/amethyst_rendy/src/visibility.rs): the Visibility resource, the    *)
(* VisibilitySortingSystem with its two scratch buffers, the Frustum, and  *)
(* the component storages the system reads each frame.                     *)
(*                                                                         *)
(* Numbers.  An f32 is modelled as an exact integer or NaN: F(n) is the    *)
(* one-element tuple <<n>> and NaN the empty tuple.  Rounding and overflow *)
(* to infinity are outside the model; NaN propagation and the behaviour of *)
(* comparisons on NaN are kept.  The matrices the bounds offer have        *)
(* determinant -1, 0 or 1 and axis-aligned plane normals, so every         *)
(* division the code performs is exact on them.                            *)
(***************************************************************************)
EXTENDS Integers, Sequences, FiniteSets

\* Number of entity ids of the bounded world.
NumEntities == 2

Slots == 1..NumEntities

VARIABLES
    entities,           \* Entities: the ids that are alive
    hidden,             \* ReadStorage<Hidden>: ids carrying the marker
    hidden_prop,        \* ReadStorage<HiddenPropagate>
    active,             \* Option<Read<ActiveCamera>>: None or Some(entity)
    camera,             \* ReadStorage<Camera>: id -> projection matrix
    transparent,        \* ReadStorage<Transparent>
    global,             \* ReadStorage<GlobalTransform>: id -> Matrix4
    bound,              \* ReadStorage<BoundingSphere>: id -> sphere
    visible_unordered,  \* Visibility.visible_unordered (BitSet of ids)
    visible_ordered,    \* Visibility.visible_ordered (Vec<Entity>)
    self_centroids,     \* VisibilitySortingSystem.centroids
    self_transparent,   \* VisibilitySortingSystem.transparent
    used,               \* the (camera, transform) pair the last run selected
    prior,              \* Visibility as it was when the last run began
    quiet,              \* the last run began with the world as the run before left it
    status,             \* "new" | "ok" | "panicked": outcome of the last run
    dirty               \* a component changed since the last run

world == <<entities, hidden, hidden_prop, active, camera, transparent, global, bound>>
output == <<visible_unordered, visible_ordered>>
vars == <<entities, hidden, hidden_prop, active, camera, transparent, global, bound,
          visible_unordered, visible_ordered, self_centroids, self_transparent,
          used, prior, quiet, status, dirty>>

---------------------------------------------------------------------------
(* Option and f32 *)

None == <<>>
Some(x) == <<x>>

NaN == <<>>
F(n) == <<n>>
IsNaN(a) == a = <<>>

FAdd(a, b) == IF IsNaN(a) \/ IsNaN(b) THEN NaN ELSE F(a[1] + b[1])
FSub(a, b) == IF IsNaN(a) \/ IsNaN(b) THEN NaN ELSE F(a[1] - b[1])
FMul(a, b) == IF IsNaN(a) \/ IsNaN(b) THEN NaN ELSE F(a[1] * b[1])
FNeg(a) == IF IsNaN(a) THEN NaN ELSE F(0 - a[1])
\* a / b on the values the bounds produce (b divides a); x / 0 is an
\* infinity or NaN, and every use below only compares the result after
\* adding it to 0 * (x / 0) = NaN, so NaN stands for both.
FDiv(a, b) ==
    IF IsNaN(a) \/ IsNaN(b) THEN NaN
    ELSE IF b[1] = 0 THEN NaN
    ELSE IF b[1] > 0 THEN F(a[1] \div b[1])
    ELSE F((0 - a[1]) \div (0 - b[1]))
\* f32::max returns the other operand when one is NaN.
FMax(a, b) ==
    IF IsNaN(a) THEN b
    ELSE IF IsNaN(b) THEN a
    ELSE IF a[1] >= b[1] THEN a ELSE b
\* a <= b on f32: false when either is NaN.
FLe(a, b) == ~IsNaN(a) /\ ~IsNaN(b) /\ a[1] <= b[1]
FLt(a, b) == ~IsNaN(a) /\ ~IsNaN(b) /\ a[1] < b[1]
FIsZero(a) == ~IsNaN(a) /\ a[1] = 0
\* sqrt on the perfect squares the bounds produce.
FSqrt(a) ==
    IF IsNaN(a) \/ a[1] < 0 THEN NaN
    ELSE F(CHOOSE k \in 0..a[1] : k * k <= a[1] /\ (k + 1) * (k + 1) > a[1])
\* PartialOrd::partial_cmp on f32.
partial_cmp(a, b) ==
    IF IsNaN(a) \/ IsNaN(b) THEN None
    ELSE IF a[1] < b[1] THEN Some("Less")
    ELSE IF a[1] > b[1] THEN Some("Greater")
    ELSE Some("Equal")

---------------------------------------------------------------------------
(* Point3, Vector4, Matrix4 (row-major: M[i][j], i, j in 1..4) *)

Point3(x, y, z) == <<F(x), F(y), F(z)>>
origin == Point3(0, 0, 0)

Dot3(u, p) == FAdd(FAdd(FMul(u[1], p[1]), FMul(u[2], p[2])), FMul(u[3], p[3]))

distance_squared(p, q) ==
    LET d(i) == FSub(p[i], q[i])
    IN FAdd(FAdd(FMul(d(1), d(1)), FMul(d(2), d(2))), FMul(d(3), d(3)))

\* Matrix with diagonal (sx, sy, sz, 1) and translation column (x, y, z).
Affine(sx, sy, sz, x, y, z) ==
    << <<F(sx), F(0), F(0), F(x)>>,
       <<F(0), F(sy), F(0), F(y)>>,
       <<F(0), F(0), F(sz), F(z)>>,
       <<F(0), F(0), F(0), F(1)>> >>
Translation(x, y, z) == Affine(1, 1, 1, x, y, z)
\* GlobalTransform::default()
identity == Translation(0, 0, 0)
NaNMatrix ==
    << <<NaN, NaN, NaN, NaN>>, <<NaN, NaN, NaN, NaN>>,
       <<NaN, NaN, NaN, NaN>>, <<NaN, NaN, NaN, NaN>> >>

MatMul(A, B) ==
    LET e(i, j) == FAdd(FAdd(FAdd(FMul(A[i][1], B[1][j]), FMul(A[i][2], B[2][j])),
                             FMul(A[i][3], B[3][j])), FMul(A[i][4], B[4][j]))
        r(i) == <<e(i, 1), e(i, 2), e(i, 3), e(i, 4)>>
    IN <<r(1), r(2), r(3), r(4)>>

\* Matrix4::transform_point: the point as a homogeneous vector, divided by
\* the normalizer when that is not zero.
transform_point(M, p) ==
    LET n == FAdd(Dot3(M[4], p), M[4][4])
        q == IF FIsZero(n) THEN p ELSE <<FDiv(p[1], n), FDiv(p[2], n), FDiv(p[3], n)>>
        t(i) == FAdd(Dot3(M[i], q), M[i][4])
    IN <<t(1), t(2), t(3)>>

\* Determinant of the 3x3 matrix left by deleting row i and column j.
Skip(k, i) == IF k < i THEN k ELSE k + 1
Minor(M, i, j) ==
    LET r1 == M[Skip(1, i)]
        r2 == M[Skip(2, i)]
        r3 == M[Skip(3, i)]
        c1 == Skip(1, j)
        c2 == Skip(2, j)
        c3 == Skip(3, j)
    IN FAdd(FAdd(FMul(r1[c1], FSub(FMul(r2[c2], r3[c3]), FMul(r2[c3], r3[c2]))),
                 FMul(r1[c2], FSub(FMul(r2[c3], r3[c1]), FMul(r2[c1], r3[c3])))),
            FMul(r1[c3], FSub(FMul(r2[c1], r3[c2]), FMul(r2[c2], r3[c1]))))
Cofactor(M, i, j) == IF (i + j) % 2 = 0 THEN Minor(M, i, j) ELSE FNeg(Minor(M, i, j))
Det(M) ==
    FAdd(FAdd(FAdd(FMul(M[1][1], Cofactor(M, 1, 1)), FMul(M[1][2], Cofactor(M, 1, 2))),
              FMul(M[1][3], Cofactor(M, 1, 3))), FMul(M[1][4], Cofactor(M, 1, 4)))
\* Matrix4::try_inverse: None when the determinant is zero, otherwise the
\* adjugate scaled by 1 / det (all NaN when the determinant is NaN).
try_inverse(M) ==
    LET det == Det(M)
        e(i, j) == FDiv(Cofactor(M, j, i), det)
        r(i) == <<e(i, 1), e(i, 2), e(i, 3), e(i, 4)>>
    IN IF FIsZero(det) THEN None ELSE Some(<<r(1), r(2), r(3), r(4)>>)

---------------------------------------------------------------------------
(* Frustum *)

Vec4Add(u, v) == <<FAdd(u[1], v[1]), FAdd(u[2], v[2]), FAdd(u[3], v[3]), FAdd(u[4], v[4])>>
Vec4Sub(u, v) == <<FSub(u[1], v[1]), FSub(u[2], v[2]), FSub(u[3], v[3]), FSub(u[4], v[4])>>
\* plane.xyz().magnitude()
magnitude(v) == FSqrt(FAdd(FAdd(FMul(v[1], v[1]), FMul(v[2], v[2])), FMul(v[3], v[3])))
\* plane * (1.0 / plane.xyz().magnitude())
Normalized(v) ==
    LET m == magnitude(v)
    IN <<FDiv(v[1], m), FDiv(v[2], m), FDiv(v[3], m), FDiv(v[4], m)>>

\* Frustum::new: the six planes, in the order of the source.
FrustumNew(matrix) ==
    << Normalized(Vec4Add(matrix[4], matrix[1])),
       Normalized(Vec4Sub(matrix[4], matrix[1])),
       Normalized(Vec4Sub(matrix[4], matrix[2])),
       Normalized(Vec4Add(matrix[4], matrix[2])),
       Normalized(Vec4Add(matrix[4], matrix[3])),
       Normalized(Vec4Sub(matrix[4], matrix[3])) >>

\* plane.xyz().dot(&center.coords) + plane.w
SignedDistance(plane, center) == FAdd(Dot3(plane, center), plane[4])

\* Mutations of check_sphere: the comparison made strict; the sign of the
\* radius lost.
check_sphere_strict(planes, center, radius) ==
    \A i \in 1..6 : ~FLt(SignedDistance(planes[i], center), FNeg(radius))
check_sphere_sign(planes, center, radius) ==
    \A i \in 1..6 : ~FLe(SignedDistance(planes[i], center), radius)

\* Frustum::check_sphere: false as soon as one plane has the sphere fully
\* on its outer side.
check_sphere(planes, center, radius) ==
    \A i \in 1..6 : ~FLe(SignedDistance(planes[i], center), FNeg(radius))

---------------------------------------------------------------------------
(* BoundingSphere and Camera *)

\* BoundingSphere::new
BoundingSphere(center, radius) == [center |-> center, radius |-> radius]

\* Orthographic projection matrix of the box [l, r] x [b, t] x [-f, -n].
Orthographic(l, r, b, t, n, f) ==
    << <<FDiv(F(2), F(r - l)), F(0), F(0), FDiv(F(0 - (r + l)), F(r - l))>>,
       <<F(0), FDiv(F(2), F(t - b)), F(0), FDiv(F(0 - (t + b)), F(t - b))>>,
       <<F(0), F(0), FDiv(F(0 - 2), F(f - n)), FDiv(F(0 - (f + n)), F(f - n))>>,
       <<F(0), F(0), F(0), F(1)>> >>

\* Camera::standard_2d(): the orthographic projection of x, y in [-1, 1].
\* Its depth range is taken as near = 1, far = 3, which keeps the matrix
\* integral.
standard_2d == Orthographic(0 - 1, 1, 0 - 1, 1, 1, 3)

\* First element of a non-empty set of ids in join (ascending id) order.
MinOf(S) == CHOOSE e \in S : \A o \in S : e <= o

\* Mutation of the camera selection: the active camera ignored.
SelectCamera_first ==
    LET both == (DOMAIN camera) \cap (DOMAIN global)
    IN IF both # {}
       THEN [src |-> Some(MinOf(both)), proj |-> camera[MinOf(both)],
             transform |-> global[MinOf(both)]]
       ELSE [src |-> None, proj |-> standard_2d, transform |-> identity]
\* The (camera, transform) pair of the frame: camera_join.get(active) if the
\* resource is there, the entity is alive and it is in the join; else the
\* first entity of the join; else the default camera at the identity.
\* src records where the pair came from.
SelectCamera ==
    LET both == (DOMAIN camera) \cap (DOMAIN global)
    IN IF active # None /\ active[1] \in entities /\ active[1] \in both
       THEN [src |-> active, proj |-> camera[active[1]], transform |-> global[active[1]]]
       ELSE IF both # {}
       THEN [src |-> Some(MinOf(both)), proj |-> camera[MinOf(both)],
             transform |-> global[MinOf(both)]]
       ELSE [src |-> None, proj |-> standard_2d, transform |-> identity]

---------------------------------------------------------------------------
(* The candidate scan *)

\* The ids of S in ascending order, as the join yields them.
RECURSIVE Ascending(_)
Ascending(S) == IF S = {} THEN <<>> ELSE <<MinOf(S)>> \o Ascending(S \ {MinOf(S)})

\* Mutation of the join: one exclusion marker forgotten.
Candidates_nohiddenprop == (entities \cap DOMAIN global) \ hidden

\* (&*entities, &global, bound.maybe(), !&hidden, !&hidden_prop).join()
Candidates == ((entities \cap DOMAIN global) \ hidden) \ hidden_prop

\* World-space centre of the entity's sphere: the transform applied to the
\* sphere's centre, or to the origin without a BoundingSphere.
Centroid(e) ==
    transform_point(global[e], IF e \in DOMAIN bound THEN bound[e].center ELSE origin)

\* Effective radius: the sphere's radius (1.0 without one) times the largest
\* of the three diagonal entries of the transform.
Radius(e) ==
    FMul(IF e \in DOMAIN bound THEN bound[e].radius ELSE F(1),
         FMax(FMax(global[e][1][1], global[e][2][2]), global[e][3][3]))

Internals(e, centroid, camera_centroid) ==
    [entity |-> e,
     transparent |-> e \in transparent,
     centroid |-> centroid,
     camera_distance |-> distance_squared(centroid, camera_centroid)]

\* self.centroids after clear() and extend(): the candidates that pass the
\* cull test, in join order.
Scan(frustum, camera_centroid) ==
    LET joined == Ascending(Candidates)
        passes(e) == check_sphere(frustum, Centroid(e), Radius(e))
        kept == SelectSeq(joined, passes)
    IN [i \in 1..Len(kept) |-> Internals(kept[i], Centroid(kept[i]), camera_centroid)]

---------------------------------------------------------------------------
(* The transparent subset and its sort *)

\* Mutations of the comparator: nearest first; equal and unorderable
\* distances ordered instead of left equal.
compare_ascending(a, b) ==
    LET r == partial_cmp(a.camera_distance, b.camera_distance)
    IN IF r = None THEN "Equal" ELSE r[1]
compare_no_equal(a, b) ==
    LET r == partial_cmp(b.camera_distance, a.camera_distance)
    IN IF r = None \/ r = Some("Equal") THEN "Less" ELSE r[1]

\* The closure given to sort_by:
\* b.camera_distance.partial_cmp(&a.camera_distance).unwrap_or(Ordering::Equal)
compare(a, b) ==
    LET r == partial_cmp(b.camera_distance, a.camera_distance)
    IN IF r = None THEN "Equal" ELSE r[1]

is_less(a, b) == compare(a, b) = "Less"

\* v[1] moved right into the sorted v[2..]: past each element that is less
\* than it, up to the first that is not.
insert_head(v) ==
    IF Len(v) >= 2 /\ is_less(v[2], v[1])
    THEN LET k == CHOOSE k \in 2..Len(v) :
                      /\ \A j \in 2..k : is_less(v[j], v[1])
                      /\ (k < Len(v) => ~is_less(v[k + 1], v[1]))
         IN SubSeq(v, 2, k) \o <<v[1]>> \o SubSeq(v, k + 1, Len(v))
    ELSE v

\* v with v[i..] sorted, given v[i+1..] sorted, for i down to 1.
RECURSIVE InsertFrom(_, _)
InsertFrom(v, i) ==
    IF i < 1 THEN v
    ELSE InsertFrom(SubSeq(v, 1, i - 1) \o insert_head(SubSeq(v, i, Len(v))), i - 1)

\* slice::sort_by on the transparent buffer: the stable insertion sort the
\* standard library runs on a slice of at most 20 elements.
sort_by(v) == InsertFrom(v, Len(v) - 1)

IsTransparent(c) == c.transparent
IsOpaque(c) == ~c.transparent

\* Mutation: the buffer extended without being cleared.
TransparentSubset_noclear(cents) == self_transparent \o SelectSeq(cents, IsTransparent)

\* self.transparent after clear() and extend(): the transparent records of
\* self.centroids, in order.
TransparentSubset(cents) == SelectSeq(cents, IsTransparent)

---------------------------------------------------------------------------
(* Publishing into Visibility *)

Ids(v) == {v[i].entity : i \in 1..Len(v)}

\* Mutation: the transparency filter forgotten.
Unordered_all(cents) == Ids(cents)

\* visible_unordered after clear() and extend(): the ids of the records of
\* self.centroids that are not transparent.
Unordered(cents) == Ids(SelectSeq(cents, IsOpaque))

\* Mutation: the vector extended without being cleared.
Ordered_noclear(sorted) == visible_ordered \o [i \in 1..Len(sorted) |-> sorted[i].entity]

\* visible_ordered after clear() and extend(): the entities of
\* self.transparent, in its order.
Ordered(sorted) == [i \in 1..Len(sorted) |-> sorted[i].entity]

---------------------------------------------------------------------------
(* VisibilitySortingSystem::run *)

\* Mutation: the outputs cleared before the inverse is unwrapped.
RunPanics_cleared(sel) ==
    /\ status' = "panicked"
    /\ used' = sel
    /\ prior' = output
    /\ quiet' = FALSE
    /\ visible_unordered' = {}
    /\ visible_ordered' = <<>>
    /\ UNCHANGED <<world, self_centroids, self_transparent, dirty>>

\* try_inverse().unwrap() on None: the run panics before it has touched the
\* buffers or the Visibility resource.
RunPanics(sel) ==
    /\ status' = "panicked"
    /\ used' = sel
    /\ prior' = output
    /\ quiet' = FALSE
    /\ UNCHANGED <<world, output, self_centroids, self_transparent, dirty>>

\* The rest of run, from the frustum to the two publications.
RunPublishes(sel, inverse) ==
    \E camera_centroid \in {transform_point(sel.transform, origin)} :
    \E frustum \in {FrustumNew(MatMul(sel.proj, inverse))} :
    \E cents \in {Scan(frustum, camera_centroid)} :
    \E sorted \in {sort_by(TransparentSubset(cents))} :
       /\ self_centroids' = cents
       /\ self_transparent' = sorted
       /\ visible_unordered' = Unordered(cents)
       /\ visible_ordered' = Ordered(sorted)
       /\ used' = sel
       /\ prior' = output
       /\ quiet' = (status = "ok" /\ ~dirty)
       /\ status' = "ok"
       /\ dirty' = FALSE
       /\ UNCHANGED world

\* One invocation of run; a panic ends the program.
Run ==
    /\ status # "panicked"
    /\ \E sel \in {SelectCamera} :
       \E inv \in {try_inverse(sel.transform)} :
          IF inv = None THEN RunPanics(sel)
          ELSE \E inverse \in {inv[1]} : RunPublishes(sel, inverse)

---------------------------------------------------------------------------
(* The world between two runs: one change of an entity or component per    *)
(* frame, made by the systems that run before this one.                    *)

Editable == status # "panicked" /\ ~dirty
Edited ==
    /\ dirty' = TRUE
    /\ prior' = output
    /\ quiet' = FALSE
    /\ UNCHANGED <<output, self_centroids, self_transparent, used, status>>

Without(f, e) == [x \in (DOMAIN f) \ {e} |-> f[x]]
With(f, e, v) == [x \in (DOMAIN f) \cup {e} |-> IF x = e THEN v ELSE f[x]]
Toggle(S, e) == IF e \in S THEN S \ {e} ELSE S \cup {e}

CreateEntity(e) ==
    /\ Editable /\ e \notin entities
    /\ entities' = entities \cup {e}
    /\ UNCHANGED <<hidden, hidden_prop, active, camera, transparent, global, bound>>
    /\ Edited

\* The entity and all its components go; ActiveCamera may keep naming it.
DeleteEntity(e) ==
    /\ Editable /\ e \in entities
    /\ entities' = entities \ {e}
    /\ hidden' = hidden \ {e}
    /\ hidden_prop' = hidden_prop \ {e}
    /\ transparent' = transparent \ {e}
    /\ camera' = Without(camera, e)
    /\ global' = Without(global, e)
    /\ bound' = Without(bound, e)
    /\ UNCHANGED active
    /\ Edited

InsertGlobal(e, m) ==
    /\ Editable /\ e \in entities
    /\ e \in DOMAIN global => global[e] # m
    /\ global' = With(global, e, m)
    /\ UNCHANGED <<entities, hidden, hidden_prop, active, camera, transparent, bound>>
    /\ Edited

RemoveGlobal(e) ==
    /\ Editable /\ e \in DOMAIN global
    /\ global' = Without(global, e)
    /\ UNCHANGED <<entities, hidden, hidden_prop, active, camera, transparent, bound>>
    /\ Edited

InsertBound(e, s) ==
    /\ Editable /\ e \in entities
    /\ e \in DOMAIN bound => bound[e] # s
    /\ bound' = With(bound, e, s)
    /\ UNCHANGED <<entities, hidden, hidden_prop, active, camera, transparent, global>>
    /\ Edited

RemoveBound(e) ==
    /\ Editable /\ e \in DOMAIN bound
    /\ bound' = Without(bound, e)
    /\ UNCHANGED <<entities, hidden, hidden_prop, active, camera, transparent, global>>
    /\ Edited

InsertCamera(e, proj) ==
    /\ Editable /\ e \in entities
    /\ e \in DOMAIN camera => camera[e] # proj
    /\ camera' = With(camera, e, proj)
    /\ UNCHANGED <<entities, hidden, hidden_prop, active, transparent, global, bound>>
    /\ Edited

RemoveCamera(e) ==
    /\ Editable /\ e \in DOMAIN camera
    /\ camera' = Without(camera, e)
    /\ UNCHANGED <<entities, hidden, hidden_prop, active, transparent, global, bound>>
    /\ Edited

ToggleHidden(e) ==
    /\ Editable /\ e \in entities
    /\ hidden' = Toggle(hidden, e)
    /\ UNCHANGED <<entities, hidden_prop, active, camera, transparent, global, bound>>
    /\ Edited

ToggleHiddenPropagate(e) ==
    /\ Editable /\ e \in entities
    /\ hidden_prop' = Toggle(hidden_prop, e)
    /\ UNCHANGED <<entities, hidden, active, camera, transparent, global, bound>>
    /\ Edited

ToggleTransparent(e) ==
    /\ Editable /\ e \in entities
    /\ transparent' = Toggle(transparent, e)
    /\ UNCHANGED <<entities, hidden, hidden_prop, active, camera, global, bound>>
    /\ Edited

\* The ActiveCamera resource set to an entity, or removed.
SetActive(a) ==
    /\ Editable /\ a # active
    /\ active' = a
    /\ UNCHANGED <<entities, hidden, hidden_prop, camera, transparent, global, bound>>
    /\ Edited

---------------------------------------------------------------------------
(* Specifications *)

\* VisibilitySortingSystem::new() and Visibility::default() over an empty
\* world.
Init ==
    /\ entities = {} /\ hidden = {} /\ hidden_prop = {} /\ transparent = {}
    /\ active = None
    /\ camera = <<>> /\ global = <<>> /\ bound = <<>>
    /\ visible_unordered = {} /\ visible_ordered = <<>>
    /\ self_centroids = <<>> /\ self_transparent = <<>>
    /\ used = None
    /\ prior = <<{}, <<>>>>
    /\ quiet = FALSE
    /\ status = "new"
    /\ dirty = FALSE

\* Transforms, relative to the default camera at the origin looking down
\* -z with its depth range [1, 3]: inside at squared distance 1 and 4, on
\* its own position (a unit sphere touches the near plane from outside),
\* behind it, not invertible, and NaN.
InFront1 == Translation(0, 0, 0 - 1)
InFront2 == Translation(0, 0, 0 - 2)
Behind == Translation(0, 0, 1)
Singular == Affine(0, 0, 0, 0, 0, 0)

\* Hidden, HiddenPropagate and Transparent markers over entities in front
\* of and behind the default camera.
Next ==
    \/ \E e \in Slots : CreateEntity(e)
    \/ \E e \in Slots : DeleteEntity(e)
    \/ \E e \in Slots : \E m \in {InFront2, Behind} : InsertGlobal(e, m)
    \/ \E e \in Slots : RemoveGlobal(e)
    \/ \E e \in Slots : ToggleHidden(e)
    \/ \E e \in Slots : ToggleHiddenPropagate(e)
    \/ \E e \in Slots : ToggleTransparent(e)
    \/ Run

Spec == Init /\ [][Next]_vars

\* Bounding spheres, of radius 0 at the entity's origin and of radius 2 one
\* unit in front of it, over entities inside the frustum, on the camera's
\* position and behind it.
SphereSet == {BoundingSphere(origin, F(0)), BoundingSphere(Point3(0, 0, 0 - 1), F(2))}

NextCull ==
    \/ \E e \in Slots : CreateEntity(e)
    \/ \E e \in Slots : DeleteEntity(e)
    \/ \E e \in Slots : \E m \in {InFront2, identity, Behind} : InsertGlobal(e, m)
    \/ \E e \in Slots : \E s \in SphereSet : InsertBound(e, s)
    \/ \E e \in Slots : RemoveBound(e)
    \/ Run

SpecCull == Init /\ [][NextCull]_vars

\* Camera entities, with transforms that are invertible, not invertible or
\* NaN, and the ActiveCamera resource.
NextCamera ==
    \/ \E e \in Slots : CreateEntity(e)
    \/ \E e \in Slots : DeleteEntity(e)
    \/ \E e \in Slots : \E m \in {InFront2, Behind, Singular, NaNMatrix} : InsertGlobal(e, m)
    \/ \E e \in Slots : RemoveGlobal(e)
    \/ \E e \in Slots : InsertCamera(e, standard_2d)
    \/ \E e \in Slots : RemoveCamera(e)
    \/ \E a \in {None} \cup {Some(e) : e \in Slots} : SetActive(a)
    \/ Run

SpecCamera == Init /\ [][NextCamera]_vars

\* Transparent entities at equal, different and NaN distances.
NextSort ==
    \/ \E e \in Slots : CreateEntity(e)
    \/ \E e \in Slots : DeleteEntity(e)
    \/ \E e \in Slots : \E m \in {InFront1, InFront2, NaNMatrix} : InsertGlobal(e, m)
    \/ \E e \in Slots : ToggleTransparent(e)
    \/ Run

SpecSort == Init /\ [][NextSort]_vars

---------------------------------------------------------------------------
(* Properties *)

Range(v) == {v[i] : i \in 1..Len(v)}
Published == visible_unordered \cup Range(visible_ordered)

\* The last step completed a run over the world as it is now.
Done == status = "ok" /\ ~dirty

\* The frustum and camera position of the last run, and what they give for
\* an entity with a transform.
FrustumUsed == FrustumNew(MatMul(used.proj, try_inverse(used.transform)[1]))
CameraCentroidUsed == transform_point(used.transform, origin)
PassesCull(e) == check_sphere(FrustumUsed, Centroid(e), Radius(e))
Distance(e) == distance_squared(Centroid(e), CameraCentroidUsed)
\* The entities with a transform and neither hidden marker that pass the
\* cull test of the last run.
Survivors ==
    LET fr == FrustumUsed
    IN {e \in Slots :
          /\ e \in entities /\ e \in DOMAIN global
          /\ e \notin hidden /\ e \notin hidden_prop
          /\ check_sphere(fr, Centroid(e), Radius(e))}

\* C1: after a completed run no entity that carries Hidden or
\* HiddenPropagate is in visible_unordered or in visible_ordered.
C1_HiddenNeverPublished ==
    Done => \A e \in hidden \cup hidden_prop : e \notin Published

\* A hidden transparent entity inside the frustum stays out while another
\* entity is published.
C1_Witness ==
    /\ Done /\ Published # {}
    /\ \E e \in hidden \cup hidden_prop :
          e \in DOMAIN global /\ e \in transparent /\ PassesCull(e)

\* C2: the two collections are disjoint in every state, and after a
\* completed run every entity with a transform, without either hidden
\* marker and passing the cull test is in exactly one of them, at most once
\* in visible_ordered.
C2_DisjointExactlyOne ==
    /\ visible_unordered \cap Range(visible_ordered) = {}
    /\ Done => \A e \in Survivors :
          /\ (e \in visible_unordered) # (e \in Range(visible_ordered))
          /\ Cardinality({i \in 1..Len(visible_ordered) : visible_ordered[i] = e}) <= 1

C2_Witness == Done /\ visible_unordered # {} /\ visible_ordered # <<>>

\* C4: after a completed run visible_unordered is exactly the set of
\* survivors without the Transparent marker and visible_ordered lists
\* exactly the survivors with it, each once; nothing of the frame before
\* remains.
C4_ExactRepublish ==
    Done => \A surv \in {Survivors} :
       /\ visible_unordered = surv \ transparent
       /\ Range(visible_ordered) = surv \cap transparent
       /\ Len(visible_ordered) = Cardinality(Range(visible_ordered))

\* A run that dropped an entity the frame before had published, and
\* published another.
C4_Witness ==
    /\ Done /\ Published # {}
    /\ \E e \in prior[1] \cup Range(prior[2]) : e \notin Published

\* C7: a run over a world that has not changed since the run before leaves
\* both collections as that run left them.
C7_Idempotent == (Done /\ quiet) => output = prior

C7_Witness == Done /\ quiet /\ visible_unordered # {} /\ visible_ordered # <<>>

Ran == status = "panicked" \/ Done

\* C6 (SpecCamera): the pair a run uses is that of the ActiveCamera entity
\* when the resource is set and the entity is alive with a Camera and a
\* GlobalTransform; otherwise that of some entity with both; otherwise the
\* default camera at the identity, and then the run completes.
C6_CameraChain ==
    Ran =>
       LET both == (DOMAIN camera) \cap (DOMAIN global)
       IN IF active # None /\ active[1] \in entities /\ active[1] \in both
          THEN used.proj = camera[active[1]] /\ used.transform = global[active[1]]
               /\ used.src = active
          ELSE IF both # {}
          THEN \E e \in both :
                  used.proj = camera[e] /\ used.transform = global[e] /\ used.src = Some(e)
          ELSE used.proj = standard_2d /\ used.transform = identity
               /\ used.src = None /\ status = "ok"

\* ActiveCamera names an entity without a Camera while another entity has
\* a Camera and a GlobalTransform: the run fell back to that one.
C6_Witness ==
    /\ Ran /\ active # None
    /\ active[1] \in entities /\ active[1] \notin DOMAIN camera
    /\ used.src # None /\ used.src # active

FGe(a, b) == FLe(b, a)

\* C3 as claimed (SpecSort): after a completed run each entity of
\* visible_ordered has a squared camera distance >= that of its successor.
C3_Original ==
    Done => \A i \in 1..(Len(visible_ordered) - 1) :
               FGe(Distance(visible_ordered[i]), Distance(visible_ordered[i + 1]))

\* C3 as amended (SpecSort): when no entity of visible_ordered has a NaN
\* squared camera distance, each has a squared camera distance >= that of
\* its successor.
C3_BackToFront ==
    (Done /\ \A i \in 1..Len(visible_ordered) : ~IsNaN(Distance(visible_ordered[i])))
    => \A i \in 1..(Len(visible_ordered) - 1) :
          FGe(Distance(visible_ordered[i]), Distance(visible_ordered[i + 1]))

\* The farther entity was scanned second and published first.
C3_Witness ==
    /\ Done /\ Len(visible_ordered) >= 2
    /\ FLt(Distance(visible_ordered[2]), Distance(visible_ordered[1]))
    /\ visible_ordered[1] > visible_ordered[2]

\* Position of a published transparent entity in the candidate scan.
ScanIndex(e) == CHOOSE k \in 1..Len(self_centroids) : self_centroids[k].entity = e
ScanDistance(e) == self_centroids[ScanIndex(e)].camera_distance
Tied(a, b) == ~FLt(a, b) /\ ~FLt(b, a)

MaxGrow == 2

\* C8 (SpecCull): a sphere check_sphere accepts is accepted with any larger
\* radius: every published entity still passes with its radius enlarged.
C8_MonotonicInRadius ==
    Done => \A fr \in {FrustumUsed} : \A e \in Published : \A d \in 1..MaxGrow :
               check_sphere(fr, Centroid(e), FAdd(Radius(e), F(d)))

\* A sphere of radius 0 is published.
C8_Witness ==
    Done /\ \E e \in Published : e \in DOMAIN bound /\ Radius(e) = F(0)

\* Signed distances of the centre of e's sphere to the six planes of the
\* last run's frustum.
PlaneDistances(e) ==
    LET fr == FrustumUsed
        c == Centroid(e)
    IN {SignedDistance(fr[i], c) : i \in 1..6}
\* The sphere of e touches a plane from outside (signed distance exactly
\* -radius) and is fully outside no plane.
Touching(e) ==
    \A ds \in {PlaneDistances(e)} : \A r \in {Radius(e)} :
       /\ \E x \in ds : x = FNeg(r)
       /\ \A x \in ds : ~FLt(x, FNeg(r))
\* The sphere of e crosses a plane and is beyond -radius of every plane.
Straddling(e) ==
    \A ds \in {PlaneDistances(e)} : \A r \in {Radius(e)} :
       /\ \E x \in ds : FLt(FNeg(r), x) /\ FLt(x, r)
       /\ \A x \in ds : FLt(FNeg(r), x)

===========================================================================
